---- MODULE Spec2Model ----
(***************************************************************************)
(* A model of the rulebook extraction scripts: rebuild_lotr.py             *)
(* (extract_objects, categorize_image, extract_images,                     *)
(* segment_extracted_images, the script) and segment_images.py             *)
(* (segment_all_composites, segment_composite_image, extract_piece).       *)
(*                                                                         *)
(* Every function is modelled as a small state machine of its own, with    *)
(* one specification each:                                                 *)
(*   Spec           extract_objects, one step per loop iteration           *)
(*   SpecCategorize categorize_image as a pure function of the bbox        *)
(*   SpecImages     extract_images, one step per object of the dictionary  *)
(*   SpecSegment    segment_extracted_images / segment_all_composites      *)
(*   SpecPieces     segment_composite_image, one step per detected box     *)
(*   SpecCrop       extract_piece as a pure function                       *)
(*   SpecMain       the script, running the functions it calls             *)
(* The variables of the functions a specification does not run keep the    *)
(* value Idle gives them.                                                  *)
(***************************************************************************)
EXTENDS Integers, Sequences, FiniteSets, TLC

VARIABLES
    \* ---- extract_objects (rebuild_lotr.py:69-216)
    pc,                  \* position in extract_objects
    src_exists,          \* os.path.exists(src_path)
    extract_page_images, \* the parameter
    page_count,          \* src.page_count
    pno,                 \* loop variable of line 89
    pd,                  \* page.get_text("dict") of the current page
    bi,                  \* index of the next block of pd["blocks"] (line 105)
    page_imgs,           \* page.get_images() of the current page (xrefs)
    ii,                  \* index of the next entry of page_imgs (line 151)
    page_objects,        \* the list being built for the current page
    pages_data,          \* the dictionary being built
    seen_xrefs,          \* line 85
    rendered,            \* per page, what page.get_pixmap did (history)
    skipped_xrefs,       \* xrefs met again after they were seen (history)
    attempts,            \* per occurrence of an xref, in order: the page, and what
                         \* src.extract_image did or "skipped" (history)
    returned,            \* what extract_objects returned, once it has
    budget,              \* blocks and image references the document has left
    \* ---- categorize_image (rebuild_lotr.py:219-244)
    cat_obj,             \* the ImageObject passed in
    cat_result,          \* what categorize_image returned, once it has
    \* ---- extract_images (rebuild_lotr.py:314-404)
    ipc,                 \* position in extract_images
    objects,             \* the parameter: page number -> list of objects
    params,              \* categorize, min_size, filter_empty, clear_output
    dirs,                \* the directories that exist at or below output_dir
    files,               \* the files below output_dir: path -> bytes
    files_before,        \* files as it was when extract_images was called (history)
    cursor,              \* <<page_num, idx>> of the next object (lines 345, 354)
    image_paths,         \* line 342
    outcome,             \* per visited object, what the loop did with it (history)
    img_returned,        \* what extract_images returned, once it has
    \* ---- segment_extracted_images (rebuild_lotr.py:1003-1039) and
    \*      segment_all_composites (segment_images.py:455-511)
    seg_pc,              \* position in the function that was called
    entry,               \* which of the two functions was called
    import_ok,           \* whether segment_images can be imported (line 1021)
    listing,             \* os.listdir(input_dir): file name -> what the file holds
    si,                  \* index of the next file of sorted(image_files)
    results,             \* line 474
    inner_calls,         \* the calls of segment_all_composites made so far (history)
    seg_returned,        \* what the called function returned or raised, once it has
    \* ---- segment_composite_image (segment_images.py:360-452)
    ppc,                 \* position in segment_composite_image
    pcall,               \* the arguments: method, min_area, padding, filter_empty, clear_output
    image,               \* what cv2.imread(image_path) gives, and what OpenCV finds in it
    detectors,           \* the detectors segment_composite_image has called (history)
    boxes,               \* line 401-414
    pidx,                \* idx of line 428
    extracted_paths,     \* line 426
    skipped_count,       \* line 427
    piece_files,         \* the files in output_dir
    fate,                \* per idx, "written" or "skipped" (history)
    piece_returned,      \* what segment_composite_image returned, once it has
    \* ---- extract_piece (segment_images.py:309-331)
    crop_in,             \* the arguments: the image's shape, bbox, padding
    crop_out,            \* the columns and rows of the array returned, once it has
    \* ---- __main__ (rebuild_lotr.py:1042-1052)
    main_pc,             \* position in the script
    argv,                \* which of --page-images and --segment were given
    main_objects,        \* objects of line 1047
    main_trace,          \* the calls made so far, in order (history)
    sheet,               \* lotr_risk_cheatsheet.txt: the page texts written, once it is
    html                 \* whether lotr_risk_cheatsheet.html has been written

objVars == <<pc, src_exists, extract_page_images, page_count, pno, pd, bi,
             page_imgs, ii, page_objects, pages_data, seen_xrefs, rendered,
             skipped_xrefs, attempts, returned, budget>>

catVars == <<cat_obj, cat_result>>

imgVars == <<ipc, objects, params, dirs, files, files_before, cursor,
             image_paths, outcome, img_returned>>

segVars == <<seg_pc, entry, import_ok, listing, si, results, inner_calls,
             seg_returned>>

pieceVars == <<ppc, pcall, image, detectors, boxes, pidx, extracted_paths,
               skipped_count, piece_files, fate, piece_returned>>

cropVars == <<crop_in, crop_out>>

mainVars == <<main_pc, argv, main_objects, main_trace, sheet, html>>

vars == <<objVars, catVars, imgVars, segVars, pieceVars, cropVars, mainVars>>

-----------------------------------------------------------------------------
(* Bounds of the model *)

\* pages of the document
MaxPages == 2
\* blocks and image references of the whole document, over all its pages
MaxItems == 2
\* distinct embedded images
MaxXref == 2
\* objects, full-page images aside, of a dictionary handed to extract_images
MaxObjects == 1
\* pieces one composite image is cut into
MaxPieces == 2

-----------------------------------------------------------------------------
(* The document: what the PDF library hands to extract_objects *)

\* page.rect of every page, as (x0, y0, x1, y1)
PageRect == <<0, 0, 612, 792>>

\* the bbox a block of the text dict carries
BlockRect == <<72, 72, 372, 272>>

\* xrefs of embedded images are positive object numbers
Xrefs == 1 .. MaxXref

\* b["image"] of an image block: a dict (with or without an "xref" entry),
\* an int, or anything else (the library's raw bytes)
BlockImages ==
    [form : {"dict"}, hasXref : {TRUE}, xref : 0 .. MaxXref]
      \cup {[form |-> "dict", hasXref |-> FALSE, xref |-> 0]}
      \cup [form : {"int"}, hasXref : {TRUE}, xref : 1 .. MaxXref]
      \cup {[form |-> "bytes", hasXref |-> FALSE, xref |-> 0]}

NoImage == [form |-> "bytes", hasXref |-> FALSE, xref |-> 0]

\* the blocks of a text dict: text blocks (type 0) with or without text,
\* image blocks (type 1) with or without a "bbox" entry, and blocks of another type
Blocks ==
    [type : {0}, hasText : BOOLEAN, image : {NoImage}, hasBbox : {TRUE}]
      \cup [type : {1}, hasText : {FALSE}, image : BlockImages, hasBbox : {TRUE}]
      \cup [type : {1}, hasText : {FALSE},
            image : [form : {"dict"}, hasXref : {TRUE}, xref : 1 .. MaxXref],
            hasBbox : {FALSE}]
      \cup [type : {2}, hasText : {FALSE}, image : {NoImage}, hasBbox : {TRUE}]

RECURSIVE SeqsUpTo(_, _)
SeqsUpTo(S, n) ==
    IF n = 0 THEN {<<>>}
    ELSE LET shorter == SeqsUpTo(S, n - 1)
         IN  shorter \cup {Append(s, x) : s \in {t \in shorter : Len(t) = n - 1}, x \in S}

\* what src.extract_image(xref) can give: a dict with the bytes of the image
\* (its format fixed by the embedded object), a dict without bytes, or an exception
ExtractOutcomes == {"ok", "nobytes", "raise"}

ImageBytesOf(xref) == IF xref % 2 = 1 THEN "PNG" ELSE "JPEG"
ImageExtOf(xref) == IF xref % 2 = 1 THEN "png" ELSE "jpeg"

-----------------------------------------------------------------------------
(* The records of lines 19-36 *)

TextObject(bbox, page_num) ==
    [kind |-> "text", text |-> "T", image_bytes |-> "", bbox |-> bbox,
     xref |-> 0, page_num |-> page_num, ext |-> ""]

ImageObject(image_bytes, bbox, xref, page_num, ext) ==
    [kind |-> "image", text |-> "", image_bytes |-> image_bytes, bbox |-> bbox,
     xref |-> xref, page_num |-> page_num, ext |-> ext]

IsImage(o) == o.kind = "image"
IsText(o) == o.kind = "text"

\* the marker of line 201
PageImageXref == -1

-----------------------------------------------------------------------------
(* extract_objects *)

EmptyDict == [kind |-> "dict", blocks |-> <<>>]

\* the value the variables of a function have while it is not running
Idle == "idle"

IdleObjects ==
    /\ pc = Idle /\ src_exists = FALSE /\ extract_page_images = FALSE
    /\ page_count = 0 /\ pno = 0 /\ pd = EmptyDict /\ bi = 1 /\ page_imgs = <<>>
    /\ ii = 1 /\ page_objects = <<>> /\ pages_data = <<>> /\ seen_xrefs = {}
    /\ rendered = <<>> /\ skipped_xrefs = {} /\ returned = [kind |-> "none"]
    /\ attempts = <<>>
    /\ budget = 0

IdleCategorize ==
    /\ cat_obj = Idle /\ cat_result = Idle

IdleImages ==
    /\ ipc = Idle /\ objects = <<>> /\ params = Idle /\ dirs = {} /\ files = <<>>
    /\ files_before = <<>>
    /\ cursor = <<0, 0>> /\ image_paths = <<>> /\ outcome = <<>>
    /\ img_returned = [kind |-> "none"]

IdleSegment ==
    /\ seg_pc = Idle /\ entry = Idle /\ import_ok = FALSE /\ listing = <<>>
    /\ si = 1 /\ results = <<>> /\ inner_calls = <<>>
    /\ seg_returned = [kind |-> "none"]

IdlePieces ==
    /\ ppc = Idle /\ pcall = Idle /\ image = Idle /\ detectors = <<>> /\ boxes = <<>>
    /\ pidx = 0 /\ extracted_paths = <<>> /\ skipped_count = 0 /\ piece_files = {}
    /\ fate = <<>> /\ piece_returned = [kind |-> "none"]

IdleCrop == crop_in = Idle /\ crop_out = [kind |-> "none"]

IdleMain ==
    /\ main_pc = Idle /\ argv = Idle /\ main_objects = Idle /\ main_trace = <<>>
    /\ sheet = [kind |-> "none"] /\ html = FALSE

ObjectsInit ==
    /\ pc = "start"
    /\ src_exists \in BOOLEAN
    /\ extract_page_images \in BOOLEAN
    /\ page_count \in 0 .. MaxPages
    /\ pno = 0
    /\ pd = EmptyDict
    /\ bi = 1
    /\ page_imgs = <<>>
    /\ ii = 1
    /\ page_objects = <<>>
    /\ pages_data = <<>>
    /\ seen_xrefs = {}
    /\ rendered = <<>>
    /\ skipped_xrefs = {}
    /\ attempts = <<>>
    /\ returned = [kind |-> "none"]
    /\ budget = MaxItems

\* mutant: the xref is not recorded
MarkSeenForgets(seen, xref) == seen

\* lines 136 and 178: seen_xrefs.add(xref)
MarkSeen(seen, xref) == seen \cup {xref}

\* lines 80-81: the path is checked before anything else is done
RaiseFileNotFound ==
    /\ pc = "start"
    /\ ~src_exists
    /\ pc' = "raised"
    /\ returned' = [kind |-> "FileNotFoundError"]
    /\ UNCHANGED <<src_exists, extract_page_images, page_count, pno, pd, bi,
                   page_imgs, ii, page_objects, pages_data, seen_xrefs, rendered,
                   skipped_xrefs, attempts, budget>>
    /\ UNCHANGED <<catVars, imgVars, segVars, pieceVars, cropVars, mainVars>>

\* mutant: the document is opened without the check of line 80
OpenDocumentUnchecked ==
    /\ pc = "start"
    /\ pc' = "page"
    /\ pno' = 0
    /\ pages_data' = <<>>
    /\ seen_xrefs' = {}
    /\ UNCHANGED <<src_exists, extract_page_images, page_count, pd, bi,
                   page_imgs, ii, page_objects, rendered, skipped_xrefs, attempts,
                   returned, budget>>
    /\ UNCHANGED <<catVars, imgVars, segVars, pieceVars, cropVars, mainVars>>

\* lines 80-87: the path exists, the document is opened
OpenDocument ==
    /\ pc = "start"
    /\ src_exists
    /\ pc' = "page"
    /\ pno' = 0
    /\ pages_data' = <<>>
    /\ seen_xrefs' = {}
    /\ UNCHANGED <<src_exists, extract_page_images, page_count, pd, bi,
                   page_imgs, ii, page_objects, rendered, skipped_xrefs, attempts,
                   returned, budget>>
    /\ UNCHANGED <<catVars, imgVars, segVars, pieceVars, cropVars, mainVars>>

\* mutant: the page is stored under its 1-based number, the one the log lines print
DictSetOneBased(d, k, v) ==
    [x \in DOMAIN d \cup {k + 1} |-> IF x = k + 1 THEN v ELSE d[x]]

\* d[k] = v of a Python dictionary, kept as a function on its key set
DictSet(d, k, v) == [x \in DOMAIN d \cup {k} |-> IF x = k THEN v ELSE d[x]]

\* bbox of a block, line 107
BlockBbox(b) == IF b.hasBbox THEN BlockRect ELSE PageRect

\* lines 89-102: the next page is loaded and its text dict is read
LoadPage ==
    /\ pc = "page"
    /\ pno < page_count
    /\ UNCHANGED <<page_objects, bi, ii, page_imgs>>
    /\ \/ \* get_text gave a dict
          /\ \E bs \in SeqsUpTo(Blocks, budget) :
                /\ pd' = [kind |-> "dict", blocks |-> bs]
                /\ budget' = budget - Len(bs)
          /\ pc' = "blocks"
          /\ UNCHANGED <<pno, pages_data, rendered>>
       \/ \* get_text raised: pd = {} (lines 96-98)
          /\ pd' = EmptyDict
          /\ pc' = "blocks"
          /\ UNCHANGED <<pno, pages_data, rendered, budget>>
       \/ \* get_text gave something that is no dict (lines 100-102)
          /\ UNCHANGED pd
          /\ pages_data' = DictSet(pages_data, pno, <<>>)
          /\ rendered' = DictSet(rendered, pno, "none")
          /\ pno' = pno + 1
          /\ pc' = "page"
          /\ UNCHANGED budget
    /\ UNCHANGED <<src_exists, extract_page_images, page_count, seen_xrefs,
                   skipped_xrefs, attempts, returned>>
    /\ UNCHANGED <<catVars, imgVars, segVars, pieceVars, cropVars, mainVars>>

\* the xref an image block names (lines 126-129); meaningful when BlockHasXref
BlockHasXref(b) ==
    \/ b.image.form = "dict" /\ b.image.hasXref
    \/ b.image.form = "int"

BlockXref(b) == b.image.xref

\* mutant: the xref is marked as seen whatever the extraction gave
SeenAfterAttempt(seen, xref, got) == MarkSeen(seen, xref)

\* lines 132-136 and 155-178: the xref is marked when the bytes are there
SeenAfter(seen, xref, got) == IF got = "ok" THEN MarkSeen(seen, xref) ELSE seen

\* an occurrence of xref on page page_num and what became of it
Attempt(xref, page_num, got) == [xref |-> xref, page |-> page_num, got |-> got]

\* lines 105-147: one block of the text dict
ProcessBlock ==
    /\ pc = "blocks"
    /\ bi <= Len(pd.blocks)
    /\ bi' = bi + 1
    /\ LET b == pd.blocks[bi]
           bbox == BlockBbox(b)
       IN  \/ \* text block (lines 109-119): kept when it has text
              /\ b.type = 0
              /\ page_objects' = IF b.hasText
                                 THEN Append(page_objects, TextObject(bbox, pno))
                                 ELSE page_objects
              /\ UNCHANGED <<seen_xrefs, skipped_xrefs, attempts>>
           \/ \* image block whose xref is missing or zero (line 131)
              /\ b.type = 1
              /\ ~(BlockHasXref(b) /\ BlockXref(b) # 0)
              /\ UNCHANGED <<page_objects, seen_xrefs, skipped_xrefs, attempts>>
           \/ \* image block whose xref was already seen (line 131)
              /\ b.type = 1
              /\ BlockHasXref(b) /\ BlockXref(b) # 0 /\ BlockXref(b) \in seen_xrefs
              /\ skipped_xrefs' = skipped_xrefs \cup {BlockXref(b)}
              /\ attempts' = Append(attempts, Attempt(BlockXref(b), pno, "skipped"))
              /\ UNCHANGED <<page_objects, seen_xrefs>>
           \/ \* image block with a new xref (lines 131-147)
              /\ b.type = 1
              /\ BlockHasXref(b) /\ BlockXref(b) # 0 /\ BlockXref(b) \notin seen_xrefs
              /\ \E got \in ExtractOutcomes :
                    /\ seen_xrefs' = SeenAfter(seen_xrefs, BlockXref(b), got)
                    /\ page_objects' =
                          IF got = "ok"
                          THEN Append(page_objects,
                                ImageObject(ImageBytesOf(BlockXref(b)), bbox, BlockXref(b),
                                            pno, ImageExtOf(BlockXref(b))))
                          ELSE page_objects
                    /\ attempts' = Append(attempts, Attempt(BlockXref(b), pno, got))
              /\ UNCHANGED skipped_xrefs
           \/ \* a block of another type
              /\ b.type \notin {0, 1}
              /\ UNCHANGED <<page_objects, seen_xrefs, skipped_xrefs, attempts>>
    /\ UNCHANGED <<pc, src_exists, extract_page_images, page_count, pno, pd,
                   page_imgs, ii, pages_data, rendered, returned, budget>>
    /\ UNCHANGED <<catVars, imgVars, segVars, pieceVars, cropVars, mainVars>>

\* line 151: the block loop is over and page.get_images() is called
GetImages ==
    /\ pc = "blocks"
    /\ bi > Len(pd.blocks)
    /\ \/ /\ \E imgs \in SeqsUpTo(Xrefs, budget) :
                /\ page_imgs' = imgs
                /\ budget' = budget - Len(imgs)
          /\ pc' = "fallback"
       \/ \* get_images raised (lines 190-191)
          /\ page_imgs' = <<>>
          /\ pc' = "render"
          /\ UNCHANGED budget
    /\ ii' = 1
    /\ UNCHANGED <<src_exists, extract_page_images, page_count, pno, pd, bi,
                   page_objects, pages_data, seen_xrefs, rendered, skipped_xrefs, attempts,
                   returned>>
    /\ UNCHANGED <<catVars, imgVars, segVars, pieceVars, cropVars, mainVars>>

\* lines 163-176: the bbox of the first image block of pd naming xref, else the page
RECURSIVE FindBbox(_, _, _)
FindBbox(blocks, k, xref) ==
    IF k > Len(blocks) THEN PageRect
    ELSE IF /\ blocks[k].type = 1
            /\ BlockHasXref(blocks[k])
            /\ BlockXref(blocks[k]) = xref
         THEN BlockBbox(blocks[k])
         ELSE FindBbox(blocks, k + 1, xref)

\* lines 151-189: one entry of page.get_images()
ProcessPageImage ==
    /\ pc = "fallback"
    /\ ii <= Len(page_imgs)
    /\ ii' = ii + 1
    /\ LET xref == page_imgs[ii]
       IN  IF xref \in seen_xrefs
           THEN /\ skipped_xrefs' = skipped_xrefs \cup {xref}
                /\ attempts' = Append(attempts, Attempt(xref, pno, "skipped"))
                /\ UNCHANGED <<page_objects, seen_xrefs>>
           ELSE /\ UNCHANGED skipped_xrefs
                /\ \E got \in ExtractOutcomes :
                    /\ seen_xrefs' = SeenAfter(seen_xrefs, xref, got)
                    /\ page_objects' =
                          IF got = "ok"
                          THEN Append(page_objects,
                                ImageObject(ImageBytesOf(xref), FindBbox(pd.blocks, 1, xref),
                                            xref, pno, ImageExtOf(xref)))
                          ELSE page_objects
                    /\ attempts' = Append(attempts, Attempt(xref, pno, got))
    /\ UNCHANGED <<pc, src_exists, extract_page_images, page_count, pno, pd, bi,
                   page_imgs, pages_data, rendered, returned, budget>>
    /\ UNCHANGED <<catVars, imgVars, segVars, pieceVars, cropVars, mainVars>>

\* the loop of line 151 is over
EndPageImages ==
    /\ pc = "fallback"
    /\ ii > Len(page_imgs)
    /\ pc' = "render"
    /\ UNCHANGED <<src_exists, extract_page_images, page_count, pno, pd, bi,
                   page_imgs, ii, page_objects, pages_data, seen_xrefs, rendered,
                   skipped_xrefs, attempts, returned, budget>>
    /\ UNCHANGED <<catVars, imgVars, segVars, pieceVars, cropVars, mainVars>>

\* the object of lines 198-206
PageImage(page_num) == ImageObject("PNG", PageRect, PageImageXref, page_num, "png")

\* mutant: the full-page image is put in front of the page's objects
WithPageImageFirst(objs, page_num) == <<PageImage(page_num)>> \o objs

\* line 198: where the full-page image goes in the page's list
WithPageImage(objs, page_num) == Append(objs, PageImage(page_num))

\* lines 193-213: the optional full-page image, then the page is stored
StorePage ==
    /\ pc = "render"
    /\ \/ /\ ~extract_page_images
          /\ pages_data' = DictSet(pages_data, pno, page_objects)
          /\ rendered' = DictSet(rendered, pno, "none")
       \/ /\ extract_page_images
          /\ pages_data' = DictSet(pages_data, pno, WithPageImage(page_objects, pno))
          /\ rendered' = DictSet(rendered, pno, "ok")
       \/ \* get_pixmap or tobytes raised (lines 207-208)
          /\ extract_page_images
          /\ pages_data' = DictSet(pages_data, pno, page_objects)
          /\ rendered' = DictSet(rendered, pno, "failed")
    /\ pno' = pno + 1
    /\ pc' = "page"
    \* the locals of the iteration are dead from here on
    /\ pd' = EmptyDict /\ bi' = 1 /\ page_imgs' = <<>> /\ ii' = 1 /\ page_objects' = <<>>
    /\ UNCHANGED <<src_exists, extract_page_images, page_count, seen_xrefs,
                   skipped_xrefs, attempts, returned, budget>>
    /\ UNCHANGED <<catVars, imgVars, segVars, pieceVars, cropVars, mainVars>>

\* lines 215-216
ReturnPagesData ==
    /\ pc = "page"
    /\ pno >= page_count
    /\ pc' = "done"
    /\ returned' = [kind |-> "dict", value |-> pages_data]
    /\ UNCHANGED <<src_exists, extract_page_images, page_count, pno, pd, bi,
                   page_imgs, ii, page_objects, pages_data, seen_xrefs, rendered,
                   skipped_xrefs, attempts, budget>>
    /\ UNCHANGED <<catVars, imgVars, segVars, pieceVars, cropVars, mainVars>>

-----------------------------------------------------------------------------
(* Properties of extract_objects *)

\* the positions <<p, i>> of the objects of a dictionary of page lists
Positions(d) == {<<p, i>> : p \in DOMAIN d, i \in 1 .. MaxItems + 1} \cap
                {pos \in (DOMAIN d) \X (1 .. MaxItems + 1) : pos[2] <= Len(d[pos[1]])}

ObjectAt(d, pos) == d[pos[1]][pos[2]]

ImagePositions(d) == {pos \in Positions(d) : IsImage(ObjectAt(d, pos))}

\* C1: in the dictionary extract_objects returns, two different ImageObjects
\* (same page or not) share an xref only when both are full-page images (xref -1).
C1_XrefsUnique ==
    returned.kind = "dict" =>
        \A a, b \in ImagePositions(returned.value) :
            (a # b /\ ObjectAt(returned.value, a).xref = ObjectAt(returned.value, b).xref)
                => ObjectAt(returned.value, a).xref = PageImageXref

\* C1 witness: a returned dictionary of two pages with a full-page image each,
\* in which an embedded image that was met again later appears exactly once.
C1_Witness ==
    /\ returned.kind = "dict"
    /\ DOMAIN returned.value = {0, 1}
    /\ \E x \in skipped_xrefs :
          Cardinality({a \in ImagePositions(returned.value) :
                          ObjectAt(returned.value, a).xref = x}) = 1
    /\ Cardinality({a \in ImagePositions(returned.value) :
                       ObjectAt(returned.value, a).xref = PageImageXref}) = 2

\* C2: the keys of the returned dictionary are exactly 0 .. page_count-1, and
\* every object stored under key p has page_num = p.
C2_KeysArePages ==
    returned.kind = "dict" =>
        /\ DOMAIN returned.value = 0 .. page_count - 1
        /\ \A pos \in Positions(returned.value) :
              ObjectAt(returned.value, pos).page_num = pos[1]

\* C2 witness: a returned dictionary of two pages, the first with an empty
\* list, the second with a text object and an image object.
C2_Witness ==
    /\ returned.kind = "dict"
    /\ page_count = 2
    /\ returned.value[0] = <<>>
    /\ \E i, j \in 1 .. Len(returned.value[1]) :
          IsText(returned.value[1][i]) /\ IsImage(returned.value[1][j])

\* C3: with extract_page_images, the list of every page whose rendering
\* succeeded holds exactly one full-page image (xref -1, ext png, the page's
\* rectangle as bbox), as its last element; without extract_page_images no
\* returned object has xref -1.
C3_PageImageLast ==
    returned.kind = "dict" =>
        /\ extract_page_images =>
              \A p \in DOMAIN returned.value :
                  rendered[p] = "ok" =>
                      LET objs == returned.value[p]
                      IN  /\ Len(objs) >= 1
                          /\ {i \in 1 .. Len(objs) : objs[i].xref = PageImageXref} = {Len(objs)}
                          /\ IsImage(objs[Len(objs)])
                          /\ objs[Len(objs)].ext = "png"
                          /\ objs[Len(objs)].bbox = PageRect
        /\ ~extract_page_images =>
              \A pos \in Positions(returned.value) :
                  ObjectAt(returned.value, pos).xref # PageImageXref

\* C3 witness: a page rendered after an embedded image that also spans the
\* page's rectangle was extracted: the full-page image comes after it.
C3_Witness ==
    /\ returned.kind = "dict"
    /\ extract_page_images
    /\ \E p \in DOMAIN returned.value :
          /\ rendered[p] = "ok"
          /\ Len(returned.value[p]) >= 3
          /\ \E i \in 1 .. Len(returned.value[p]) - 1 :
                /\ IsImage(returned.value[p][i])
                /\ returned.value[p][i].bbox = PageRect
                /\ returned.value[p][i].ext = "png"

\* C7: when src_path does not exist extract_objects raises FileNotFoundError
\* at once: the document is never opened, no page is processed and nothing
\* is returned.
C7_MissingFileRaises ==
    ~src_exists =>
        /\ pc \in {"start", "raised"}
        /\ pc = "raised" => returned.kind = "FileNotFoundError"
        /\ pc = "start" => returned.kind = "none"
        /\ pages_data = <<>>
        /\ seen_xrefs = {}
        /\ pno = 0

\* C7 witness: the exception was raised for a document that has pages.
C7_Witness ==
    /\ pc = "raised"
    /\ ~src_exists
    /\ page_count = MaxPages
    /\ returned.kind = "FileNotFoundError"

\* the occurrences of xref x at which src.extract_image gave bytes
Successes(x) ==
    {i \in DOMAIN attempts : attempts[i].xref = x /\ attempts[i].got = "ok"}

\* C18: an occurrence of an xref is passed over exactly when an earlier
\* occurrence gave bytes, so after an extraction that raised or gave no bytes
\* the next occurrence, on the same page or a later one, is tried again; the
\* xrefs marked as seen are those for which an ImageObject was appended; and
\* the returned dictionary holds an image only in the list of the page of
\* its one successful extraction, before which every extraction of it failed.
C18_FirstSuccessOnly ==
    /\ \A i \in DOMAIN attempts :
          attempts[i].got = "skipped" <=>
              \E j \in 1 .. i - 1 :
                  attempts[j].xref = attempts[i].xref /\ attempts[j].got = "ok"
    /\ seen_xrefs = {x \in Xrefs : Successes(x) # {}}
    /\ returned.kind = "dict" =>
          \A x \in Xrefs :
              LET held == {pos \in ImagePositions(returned.value) :
                              ObjectAt(returned.value, pos).xref = x}
              IN  /\ Cardinality(held) = Cardinality(Successes(x))
                  /\ Cardinality(held) <= 1
                  /\ \A pos \in held, i \in Successes(x) :
                        /\ pos[1] = attempts[i].page
                        /\ \A j \in 1 .. i - 1 :
                              attempts[j].xref = x =>
                                  /\ attempts[j].got \in {"nobytes", "raise"}
                                  /\ attempts[j].page <= pos[1]

\* C18 witness: the extraction of an image raised on the first page and gave
\* bytes on the second, whose list holds the image.
C18_Witness ==
    /\ returned.kind = "dict"
    /\ \E x \in Xrefs :
          /\ Len(attempts) = 2
          /\ attempts[1] = Attempt(x, 0, "raise")
          /\ attempts[2] = Attempt(x, 1, "ok")
          /\ \E i \in 1 .. Len(returned.value[1]) : returned.value[1][i].xref = x
          /\ \A i \in 1 .. Len(returned.value[0]) : returned.value[0][i].xref # x

Next ==
    \/ RaiseFileNotFound
    \/ OpenDocument
    \/ LoadPage
    \/ ProcessBlock
    \/ GetImages
    \/ ProcessPageImage
    \/ EndPageImages
    \/ StorePage
    \/ ReturnPagesData

Init ==
    /\ ObjectsInit /\ IdleCategorize /\ IdleImages /\ IdleSegment
    /\ IdlePieces /\ IdleCrop /\ IdleMain

Spec == Init /\ [][Next]_vars

-----------------------------------------------------------------------------
(* categorize_image *)

\* widths and heights around every threshold of lines 230-241, and the pairs
\* whose ratio is exactly 0.6 (240 x 400) and exactly 1.4 (420 x 300)
Dims == {0, 200, 201, 240, 300, 400, 420, 499, 500, 501, 1499, 1500, 2000, 2001}

\* upper left corners of the bboxes
Origins == {<<0, 0>>, <<36, 72>>}

BboxWidth(bbox) == bbox[3] - bbox[1]
BboxHeight(bbox) == bbox[4] - bbox[2]

\* lines 235-236: 0.6 < width / height < 1.4, the ratio being 1 when height <= 0
AspectIsCardLike(width, height) ==
    IF height > 0
    THEN 6 * height < 10 * width /\ 10 * width < 14 * height
    ELSE TRUE

\* mutant: the ratio bounds of line 236 taken inclusive
categorize_image_inclusive_ratio(image_obj) ==
    LET width == BboxWidth(image_obj.bbox)
        height == BboxHeight(image_obj.bbox)
    IN  IF width > 2000 \/ height > 2000 THEN "map"
        ELSE IF 200 < width /\ width < 500 /\ 200 < height /\ height < 500
             THEN IF height > 0 /\ 6 * height <= 10 * width /\ 10 * width <= 14 * height
                  THEN "card" ELSE "piece"
        ELSE IF (500 < width /\ width < 1500) \/ (500 < height /\ height < 1500)
             THEN "diagram"
        ELSE "other"

\* lines 219-244
categorize_image(image_obj) ==
    LET width == BboxWidth(image_obj.bbox)
        height == BboxHeight(image_obj.bbox)
    IN  IF width > 2000 \/ height > 2000 THEN "map"
        ELSE IF 200 < width /\ width < 500 /\ 200 < height /\ height < 500
             THEN IF AspectIsCardLike(width, height) THEN "card" ELSE "piece"
        ELSE IF (500 < width /\ width < 1500) \/ (500 < height /\ height < 1500)
             THEN "diagram"
        ELSE "other"

CategorizeInit ==
    /\ \E o \in Origins, w \in Dims, h \in Dims, x \in Xrefs \cup {PageImageXref} :
          cat_obj = ImageObject("PNG", <<o[1], o[2], o[1] + w, o[2] + h>>, x, 0, "png")
    /\ cat_result = Idle

\* one call of categorize_image
Categorize ==
    /\ cat_result = Idle
    /\ cat_result' = categorize_image(cat_obj)
    /\ UNCHANGED <<cat_obj, objVars, imgVars, segVars, pieceVars, cropVars, mainVars>>

InitCategorize ==
    /\ IdleObjects /\ CategorizeInit /\ IdleImages /\ IdleSegment
    /\ IdlePieces /\ IdleCrop /\ IdleMain

NextCategorize == Categorize

SpecCategorize == InitCategorize /\ [][NextCategorize]_vars

\* C8: categorize_image always returns one of the five categories, decided by
\* the width w and the height h of the bbox alone: map if w > 2000 or h > 2000;
\* else, for 200 < w < 500 and 200 < h < 500, card when 0.6 < w/h < 1.4 and
\* piece when not; else diagram if 500 < w < 1500 or 500 < h < 1500; else other.
C8_CategoryByPriority ==
    cat_result # Idle =>
        LET w == cat_obj.bbox[3] - cat_obj.bbox[1]
            h == cat_obj.bbox[4] - cat_obj.bbox[2]
            big == w > 2000 \/ h > 2000
            small == 200 < w /\ w < 500 /\ 200 < h /\ h < 500
            squarish == 3 * h < 5 * w /\ 5 * w < 7 * h
            medium == (500 < w /\ w < 1500) \/ (500 < h /\ h < 1500)
        IN  /\ cat_result \in {"map", "card", "piece", "diagram", "other"}
            /\ cat_result = "map" <=> big
            /\ cat_result = "card" <=> ~big /\ small /\ squarish
            /\ cat_result = "piece" <=> ~big /\ small /\ ~squarish
            /\ cat_result = "diagram" <=> ~big /\ ~small /\ medium
            /\ cat_result = "other" <=> ~big /\ ~small /\ ~medium

\* C8 witness: a bbox away from the origin whose ratio is exactly 1.4 was
\* categorized, and came out as a piece.
C8_Witness ==
    /\ cat_result = "piece"
    /\ cat_obj.bbox = <<36, 72, 36 + 420, 72 + 300>>

-----------------------------------------------------------------------------
(* extract_images *)

\* The bytes of an image are kept as the name of what they hold: the format
\* their first bytes announce, and whether the picture is blank.
StartsWithPng(image_bytes) == image_bytes \in {"PNG", "PNG_BLANK"}
StartsWithGif(image_bytes) == image_bytes = "GIF"
StartsWithJpeg(image_bytes) == image_bytes = "JPEG"

\* cv2.imdecode gives None for bytes that are no image (line 269)
Decodable(image_bytes) == image_bytes # "RAW"

\* lines 278-302: the variance, light, dark and edge tests call the picture empty
LooksBlank(image_bytes) == image_bytes = "PNG_BLANK"

\* mutant: the test of line 258 left out
is_image_empty_unconditional(image_bytes, filter_empty, cv2_available) ==
    IF ~cv2_available THEN FALSE
    ELSE IF ~Decodable(image_bytes) THEN TRUE
    ELSE LooksBlank(image_bytes)

\* lines 247-311
is_image_empty(image_bytes, filter_empty, cv2_available) ==
    IF ~filter_empty THEN FALSE
    ELSE IF ~cv2_available THEN FALSE
    ELSE IF ~Decodable(image_bytes) THEN TRUE
    ELSE LooksBlank(image_bytes)

\* the images the dictionary may hold: bbox, bytes and ext ("" is None)
ImageKinds ==
    {[bbox |-> <<0, 0, 10, 10>>, image_bytes |-> "PNG", ext |-> "png"],
     [bbox |-> <<5, 5, 65, 15>>, image_bytes |-> "JPEG", ext |-> "jpeg"],
     [bbox |-> <<0, 0, 10, 60>>, image_bytes |-> "RAW", ext |-> ""],
     [bbox |-> <<0, 0, 300, 300>>, image_bytes |-> "PNG", ext |-> "png"],
     [bbox |-> <<0, 0, 210, 450>>, image_bytes |-> "GIF", ext |-> ""],
     [bbox |-> <<0, 0, 600, 100>>, image_bytes |-> "RAW", ext |-> "png"],
     [bbox |-> <<0, 0, 2500, 100>>, image_bytes |-> "JPEG", ext |-> "jpeg"],
     [bbox |-> <<0, 0, 100, 100>>, image_bytes |-> "PNG_BLANK", ext |-> "png"]}

\* the kinds of object a page list may hold, the full-page image aside
ItemKinds == {[bbox |-> BlockRect, image_bytes |-> "", ext |-> "text"]} \cup ImageKinds

\* the object of kind k at 0-based position idx of page p; every embedded
\* image has an xref of its own
ObjectOfKind(k, p, idx) ==
    IF k.ext = "text" THEN TextObject(k.bbox, p)
    ELSE ImageObject(k.image_bytes, k.bbox, 1 + p * (MaxObjects + 1) + idx, p, k.ext)

\* a page list: its items, then the full-page image if the page has one
PageList(kinds, p, hasPageImage) ==
    LET items == [i \in 1 .. Len(kinds) |-> ObjectOfKind(kinds[i], p, i - 1)]
    IN  IF hasPageImage THEN Append(items, PageImage(p)) ELSE items

RECURSIVE SumLen(_, _)
SumLen(f, n) == IF n = 0 THEN 0 ELSE Len(f[n - 1]) + SumLen(f, n - 1)

\* the dictionaries extract_objects can return: pages 0 .. n-1, at most
\* MaxObjects items in all, full-page images on all pages or on none
Documents ==
    UNION {
        {[p \in 0 .. n - 1 |-> PageList(ks[p], p, hasPageImage)] :
            ks \in {f \in [0 .. n - 1 -> SeqsUpTo(ItemKinds, MaxObjects)] : SumLen(f, n) <= MaxObjects},
            hasPageImage \in BOOLEAN}
        : n \in 0 .. MaxPages}

\* the arguments of a call (min_size 50 is the default of line 315), and
\* whether OpenCV can be imported
Params ==
    {p \in [categorize : BOOLEAN, min_size : {50, 61}, filter_empty : BOOLEAN,
            clear_output : BOOLEAN, cv2_available : BOOLEAN] :
        \* without filter_empty nothing is imported (line 366)
        p.filter_empty \/ p.cv2_available}

\* a path below output_dir: the subdirectory ("" is output_dir itself) and the name
Path(dir, name) == [dir |-> dir, name |-> name]

\* a file some earlier run left behind
StaleName == [full |-> FALSE, page |-> 0, idx |-> 0, xref |-> 0, ext |-> "old"]

\* page1_full.png, as an earlier run wrote it (line 383)
EarlierName == [full |-> TRUE, page |-> 1, idx |-> 0, xref |-> 0, ext |-> "png"]

\* what is at output_dir before the call: nothing, or a directory with files
\* of an earlier run, one of them in a subdirectory called map
Outputs ==
    {[dirs |-> {}, files |-> {}],
     [dirs |-> {"", "map"},
      files |-> {Path("", StaleName), Path("", EarlierName), Path("map", StaleName)}]}

ImagesInit ==
    /\ ipc = "start"
    /\ objects \in Documents
    /\ params \in Params
    /\ \E out \in Outputs :
          /\ dirs = out.dirs
          /\ files = [f \in out.files |-> "OLD"]
    /\ files_before = files
    /\ cursor = <<1, 0>>
    /\ image_paths = <<>>
    /\ outcome = <<>>
    /\ img_returned = [kind |-> "none"]

\* line 339: the subdirectories made for the categories
CategoryDirs == {"maps", "cards", "pieces", "diagrams", "other"}

\* mutant: shutil.rmtree of line 334 left out
PrepareOutputKeeps ==
    /\ ipc = "start"
    /\ dirs' = dirs \cup {""} \cup (IF params.categorize THEN CategoryDirs ELSE {})
    /\ files' = files
    /\ image_paths' = <<>>
    /\ cursor' = <<1, 0>>
    /\ ipc' = "loop"
    /\ UNCHANGED <<objects, params, files_before, outcome, img_returned>>
    /\ UNCHANGED <<objVars, catVars, segVars, pieceVars, cropVars, mainVars>>

\* lines 331-343: the output directory is cleared and made
PrepareOutput ==
    /\ ipc = "start"
    /\ LET cleared == params.clear_output /\ "" \in dirs
           kept == IF cleared THEN {} ELSE dirs
       IN  /\ dirs' = kept \cup {""} \cup (IF params.categorize THEN CategoryDirs ELSE {})
           /\ files' = IF cleared THEN <<>> ELSE files
    /\ image_paths' = <<>>
    /\ cursor' = <<1, 0>>
    /\ ipc' = "loop"
    /\ UNCHANGED <<objects, params, files_before, outcome, img_returned>>
    /\ UNCHANGED <<objVars, catVars, segVars, pieceVars, cropVars, mainVars>>

\* line 345: sorted(objects.keys())
RECURSIVE SortedKeys(_)
SortedKeys(S) ==
    IF S = {} THEN <<>>
    ELSE LET least == CHOOSE x \in S : \A y \in S : x <= y
         IN  <<least>> \o SortedKeys(S \ {least})

\* the page the cursor is on, and whether it points at an object of that page
PagesLeft == cursor[1] <= Len(SortedKeys(DOMAIN objects))
CurrentPage == SortedKeys(DOMAIN objects)[cursor[1]]
AtObject == PagesLeft /\ cursor[2] < Len(objects[CurrentPage])
CurrentObject == objects[CurrentPage][cursor[2] + 1]
CurrentKey == <<CurrentPage, cursor[2]>>

\* mutant: the filter as the docstring of line 324 words it, width or height
IsTinyEither(obj, min_size) ==
    BboxWidth(obj.bbox) < min_size \/ BboxHeight(obj.bbox) < min_size

\* lines 357-361
IsTiny(obj, min_size) ==
    BboxWidth(obj.bbox) < min_size /\ BboxHeight(obj.bbox) < min_size

\* lines 370-379
FileExt(obj) ==
    LET ext == IF obj.ext # "" THEN obj.ext ELSE "jpg"
    IN  IF StartsWithPng(obj.image_bytes) THEN ext
        ELSE IF StartsWithGif(obj.image_bytes) THEN "gif"
        ELSE IF StartsWithJpeg(obj.image_bytes) THEN "jpg"
        ELSE IF obj.ext = "png" THEN "png" ELSE "jpg"

\* lines 381-385: page{page_num + 1}_full.{ext} or page{page_num + 1}_img{idx}_{xref}.{ext}
FileName(obj, page_num, idx) ==
    IF obj.xref = PageImageXref
    THEN [full |-> TRUE, page |-> page_num + 1, idx |-> 0, xref |-> 0, ext |-> FileExt(obj)]
    ELSE [full |-> FALSE, page |-> page_num + 1, idx |-> idx, xref |-> obj.xref,
          ext |-> FileExt(obj)]

\* lines 387-392
FilePath(obj, page_num, idx, categorize) ==
    Path(IF categorize THEN categorize_image(obj) ELSE "", FileName(obj, page_num, idx))

\* the object passed both filters (lines 361 and 366)
PassesFilters(obj) ==
    /\ IsImage(obj)
    /\ ~IsTiny(obj, params.min_size)
    /\ ~(params.filter_empty /\ is_image_empty(obj.image_bytes, TRUE, params.cv2_available))

Advance == cursor' = <<cursor[1], cursor[2] + 1>>

\* line 355: an object that is no ImageObject
SkipText ==
    /\ ipc = "loop" /\ AtObject
    /\ ~IsImage(CurrentObject)
    /\ outcome' = DictSet(outcome, CurrentKey, "text")
    /\ Advance
    /\ UNCHANGED <<ipc, objects, params, files_before, dirs, files, image_paths, img_returned>>
    /\ UNCHANGED <<objVars, catVars, segVars, pieceVars, cropVars, mainVars>>

\* lines 356-363
SkipTiny ==
    /\ ipc = "loop" /\ AtObject
    /\ IsImage(CurrentObject)
    /\ IsTiny(CurrentObject, params.min_size)
    /\ outcome' = DictSet(outcome, CurrentKey, "tiny")
    /\ Advance
    /\ UNCHANGED <<ipc, objects, params, files_before, dirs, files, image_paths, img_returned>>
    /\ UNCHANGED <<objVars, catVars, segVars, pieceVars, cropVars, mainVars>>

\* lines 365-368
SkipEmpty ==
    /\ ipc = "loop" /\ AtObject
    /\ IsImage(CurrentObject)
    /\ ~IsTiny(CurrentObject, params.min_size)
    /\ params.filter_empty
    /\ is_image_empty(CurrentObject.image_bytes, TRUE, params.cv2_available)
    /\ outcome' = DictSet(outcome, CurrentKey, "empty")
    /\ Advance
    /\ UNCHANGED <<ipc, objects, params, files_before, dirs, files, image_paths, img_returned>>
    /\ UNCHANGED <<objVars, catVars, segVars, pieceVars, cropVars, mainVars>>

\* lines 370-400: the file is opened and written
SaveImage ==
    /\ ipc = "loop" /\ AtObject
    /\ PassesFilters(CurrentObject)
    /\ LET filepath == FilePath(CurrentObject, CurrentPage, cursor[2], params.categorize)
       IN  /\ filepath.dir \in dirs
           /\ files' = DictSet(files, filepath, CurrentObject.image_bytes)
           /\ image_paths' = DictSet(image_paths, CurrentKey, filepath)
    /\ outcome' = DictSet(outcome, CurrentKey, "saved")
    /\ Advance
    /\ UNCHANGED <<ipc, objects, params, files_before, dirs, img_returned>>
    /\ UNCHANGED <<objVars, catVars, segVars, pieceVars, cropVars, mainVars>>

\* lines 394-402: open() raises because the directory of filepath does not exist
FailNoDirectory ==
    /\ ipc = "loop" /\ AtObject
    /\ PassesFilters(CurrentObject)
    /\ FilePath(CurrentObject, CurrentPage, cursor[2], params.categorize).dir \notin dirs
    /\ outcome' = DictSet(outcome, CurrentKey, "no directory")
    /\ Advance
    /\ UNCHANGED <<ipc, objects, params, files_before, dirs, files, image_paths, img_returned>>
    /\ UNCHANGED <<objVars, catVars, segVars, pieceVars, cropVars, mainVars>>

\* mutant: the exception of a failed open leaves the loops
FailWriteAborts ==
    /\ ipc = "loop" /\ AtObject
    /\ PassesFilters(CurrentObject)
    /\ FilePath(CurrentObject, CurrentPage, cursor[2], params.categorize).dir \in dirs
    /\ outcome' = DictSet(outcome, CurrentKey, "write failed")
    /\ cursor' = <<Len(SortedKeys(DOMAIN objects)) + 1, 0>>
    /\ UNCHANGED <<ipc, objects, params, files_before, dirs, files, image_paths, img_returned>>
    /\ UNCHANGED <<objVars, catVars, segVars, pieceVars, cropVars, mainVars>>

\* lines 394-402: the directory exists, but the operating system refuses the
\* open (permissions, a full disk): the exception is logged, nothing is recorded
FailWrite ==
    /\ ipc = "loop" /\ AtObject
    /\ PassesFilters(CurrentObject)
    /\ FilePath(CurrentObject, CurrentPage, cursor[2], params.categorize).dir \in dirs
    /\ outcome' = DictSet(outcome, CurrentKey, "write failed")
    /\ Advance
    /\ UNCHANGED <<ipc, objects, params, files_before, dirs, files, image_paths, img_returned>>
    /\ UNCHANGED <<objVars, catVars, segVars, pieceVars, cropVars, mainVars>>

\* line 345: the objects of the page are done, the next page is taken
NextPage ==
    /\ ipc = "loop"
    /\ PagesLeft /\ ~AtObject
    /\ cursor' = <<cursor[1] + 1, 0>>
    /\ UNCHANGED <<ipc, objects, params, files_before, dirs, files, image_paths, outcome, img_returned>>
    /\ UNCHANGED <<objVars, catVars, segVars, pieceVars, cropVars, mainVars>>

\* line 404
ReturnImagePaths ==
    /\ ipc = "loop"
    /\ ~PagesLeft
    /\ ipc' = "done"
    /\ img_returned' = [kind |-> "dict", value |-> image_paths]
    /\ UNCHANGED <<objects, params, files_before, dirs, files, cursor, image_paths, outcome>>
    /\ UNCHANGED <<objVars, catVars, segVars, pieceVars, cropVars, mainVars>>

InitImages ==
    /\ IdleObjects /\ IdleCategorize /\ ImagesInit /\ IdleSegment
    /\ IdlePieces /\ IdleCrop /\ IdleMain

NextImages ==
    \/ PrepareOutput
    \/ SkipText
    \/ SkipTiny
    \/ SkipEmpty
    \/ SaveImage
    \/ FailNoDirectory
    \/ FailWrite
    \/ NextPage
    \/ ReturnImagePaths

SpecImages == InitImages /\ [][NextImages]_vars

-----------------------------------------------------------------------------
(* Properties of extract_images *)

\* the keys (page_num, idx) of all objects of the dictionary, idx counted from 0
ObjectKeys == {<<p, i - 1>> : p \in DOMAIN objects, i \in 1 .. MaxObjects + 1} \cap
              {k \in (DOMAIN objects) \X (0 .. MaxObjects) : k[2] < Len(objects[k[1]])}

ObjectOf(key) == objects[key[1]][key[2] + 1]

\* C4 (as claimed): with categorize=True every image that passes the size
\* filter and the empty-image filter, and whose write the operating system does
\* not refuse, is saved in one of the category subdirectories the call created
\* and is recorded in the returned mapping.
C4_SavedInCategoryDir ==
    (ipc = "done" /\ params.categorize) =>
        \A key \in ObjectKeys :
            (PassesFilters(ObjectOf(key)) /\ outcome[key] # "write failed") =>
                /\ key \in DOMAIN img_returned.value
                /\ img_returned.value[key].dir \in CategoryDirs
                /\ img_returned.value[key] \in DOMAIN files

\* C9: an image whose bbox width and height are both below min_size is never
\* saved, and an image is skipped as tiny only when both are below min_size.
C9_SizeFilter ==
    \A key \in DOMAIN outcome :
        LET w == ObjectOf(key).bbox[3] - ObjectOf(key).bbox[1]
            h == ObjectOf(key).bbox[4] - ObjectOf(key).bbox[2]
        IN  /\ (w < params.min_size /\ h < params.min_size) =>
                  /\ outcome[key] # "saved"
                  /\ key \notin DOMAIN image_paths
            /\ (w >= params.min_size \/ h >= params.min_size) =>
                  outcome[key] # "tiny"

\* C9 witness: an image narrower than min_size in one direction only was saved.
C9_Witness ==
    /\ ipc = "done"
    /\ \E key \in DOMAIN outcome :
          /\ outcome[key] = "saved"
          /\ ObjectOf(key).bbox[4] - ObjectOf(key).bbox[2] < params.min_size
          /\ key \in DOMAIN img_returned.value

\* C10: every key (page_num, idx) of the mapping names an ImageObject of the
\* dictionary whose bytes are in the file it is mapped to; an image whose write
\* failed has no key; and a failed write does not end the loops: when
\* extract_images returns, every object of every page has been visited and
\* every image that passed the filters and was written is in the mapping.
C10_MappingMatchesFiles ==
    /\ \A key \in DOMAIN image_paths :
          /\ key \in ObjectKeys
          /\ IsImage(ObjectOf(key))
          /\ image_paths[key] \in DOMAIN files
          /\ files[image_paths[key]] = ObjectOf(key).image_bytes
    /\ \A key \in DOMAIN outcome :
          outcome[key] \in {"write failed", "no directory"} => key \notin DOMAIN image_paths
    /\ ipc = "done" =>
          /\ DOMAIN outcome = ObjectKeys
          /\ img_returned.value = image_paths
          /\ \A key \in ObjectKeys : outcome[key] = "saved" <=> key \in DOMAIN image_paths

\* C10 witness: the write of one image failed, a later image was written and
\* is in the returned mapping.
C10_Witness ==
    /\ ipc = "done"
    /\ \E failed, saved \in ObjectKeys :
          /\ outcome[failed] = "write failed"
          /\ outcome[saved] = "saved"
          /\ \/ failed[1] < saved[1]
             \/ failed[1] = saved[1] /\ failed[2] < saved[2]
          /\ saved \in DOMAIN img_returned.value

\* the files this call has written so far
WrittenByCall ==
    {FilePath(ObjectOf(key), key[1], key[2], params.categorize) :
        key \in {k \in DOMAIN outcome : outcome[k] = "saved"}}

\* C11: with clear_output=True, once the directory has been prepared it holds
\* no file of before the call, only files this call wrote (a file of an old
\* name is there only if this call wrote it anew); with clear_output=False
\* every file that was there before the call is still there.
C11_ClearOutput ==
    ipc \in {"loop", "done"} =>
        /\ params.clear_output =>
              /\ DOMAIN files = WrittenByCall
              /\ \A f \in DOMAIN files : files[f] # "OLD"
        /\ ~params.clear_output =>
              \A f \in DOMAIN files_before : f \in DOMAIN files

\* C11 witness: a call with clear_output=True on a directory that held three
\* files returned, and the directory holds page1_full.png, written anew.
C11_Witness ==
    /\ ipc = "done"
    /\ params.clear_output
    /\ Cardinality(DOMAIN files_before) = 3
    /\ DOMAIN files = {Path("", EarlierName)}
    /\ files[Path("", EarlierName)] # "OLD"

\* the byte strings of the images
ImageBytes == {k.image_bytes : k \in ImageKinds}

\* C12: is_image_empty(bytes, filter_empty=False) is False for all bytes,
\* whether or not OpenCV is there to decode them; and a call of extract_images
\* with filter_empty=False skips no image as empty: an image that is not in the
\* returned mapping was below min_size in both directions or its write failed.
C12_NoEmptyFilter ==
    /\ \A b \in ImageBytes, cv \in BOOLEAN : is_image_empty(b, FALSE, cv) = FALSE
    /\ (ipc \in {"loop", "done"} /\ ~params.filter_empty) =>
          /\ \A key \in DOMAIN outcome : outcome[key] # "empty"
          /\ ipc = "done" =>
                \A key \in ObjectKeys :
                    (IsImage(ObjectOf(key)) /\ key \notin DOMAIN img_returned.value) =>
                        \/ /\ outcome[key] = "tiny"
                           /\ BboxWidth(ObjectOf(key).bbox) < params.min_size
                           /\ BboxHeight(ObjectOf(key).bbox) < params.min_size
                        \/ outcome[key] \in {"write failed", "no directory"}

\* C12 witness: with filter_empty=False and OpenCV installed, an image that
\* the filter would have called empty was saved and is in the returned mapping.
C12_Witness ==
    /\ ipc = "done"
    /\ ~params.filter_empty /\ params.cv2_available
    /\ \E key \in DOMAIN img_returned.value :
          /\ is_image_empty(ObjectOf(key).image_bytes, TRUE, TRUE)
          /\ outcome[key] = "saved"

-----------------------------------------------------------------------------
(* segment_extracted_images and segment_all_composites *)

\* the names bound at module level when rebuild_lotr.py runs or is imported
\* (lines 3-16 and every def and class of the file)
RebuildGlobals ==
    {"fitz", "os", "shutil", "logging", "sys", "dataclass", "List", "Union",
     "Optional", "Dict", "logger", "SRC", "OUT", "TextObject", "ImageObject",
     "extract_text_from_block", "get_font_info_from_block", "extract_objects",
     "categorize_image", "is_image_empty", "extract_images", "create_cheat_sheet",
     "create_html_cheatsheet", "segment_extracted_images"}

\* the names bound at module level when segment_images.py is imported (lines
\* 8-17 and every def of the file; the assignments of lines 554-555 belong to
\* the script block, which an import does not run)
SegmentGlobals ==
    {"os", "shutil", "cv2", "np", "logging", "List", "Tuple", "Optional", "Path",
     "logger", "is_empty_image", "has_meaningful_content", "is_background_only",
     "is_composite_image", "detect_pieces_contour", "detect_pieces_color_based",
     "detect_pieces_grid", "extract_piece", "is_valid_piece",
     "segment_composite_image", "segment_all_composites"}

\* the parameters of segment_extracted_images (lines 1003-1007) and the name
\* its import binds (line 1021)
OuterLocals ==
    {"images_dir", "output_dir", "min_size", "method", "min_area",
     "segment_all_composites"}

\* the names the call of lines 1023-1031 reads, in the order Python evaluates them
OuterCallNames ==
    <<"segment_all_composites", "images_dir", "output_dir", "min_size", "method",
      "min_area", "filter_empty", "clear_output">>

\* the keywords the call of lines 1023-1031 passes
OuterCallKeywords == {"min_size", "method", "min_area", "filter_empty", "clear_output"}

\* the parameters of segment_all_composites (lines 455-459)
InnerParams == {"input_dir", "output_dir", "min_size", "method", "min_area", "filter_empty"}

\* the parameters of segment_all_composites and the locals bound when line 498 is reached
InnerLocals ==
    InnerParams \cup {"results", "image_extensions", "image_files", "filename",
                      "image_path", "base_name", "composite_output_dir"}

\* the names the call of lines 498-505 reads, in the order Python evaluates them
InnerCallNames ==
    <<"segment_composite_image", "image_path", "composite_output_dir", "method",
      "min_area", "filter_empty", "clear_output">>

\* every name of a call resolves in the locals or in the module's globals;
\* a name that does not raises NameError
AllNamesResolve(names, locals, globals) ==
    \A i \in 1 .. Len(names) : names[i] \in locals \cup globals

\* line 477
image_extensions == {".jpg", ".jpeg", ".png", ".bmp", ".tiff"}

\* the file names a directory may hold, in the order sorted() puts them
\* (by code point: "P" comes before "j")
NameOrder ==
    <<[stem |-> "a", suffix |-> ".PNG"],
      [stem |-> "a", suffix |-> ".jpg"],
      [stem |-> "b", suffix |-> ".tiff"],
      [stem |-> "b", suffix |-> ".txt"]>>

FileNames == {NameOrder[i] : i \in 1 .. Len(NameOrder)}

\* Path(f).suffix.lower() of line 480
SuffixLower(name) == IF name.suffix = ".PNG" THEN ".png" ELSE name.suffix

\* line 485: sorted(image_files), for the names of NameOrder
RECURSIVE SortedFrom(_, _)
SortedFrom(names, k) ==
    IF k > Len(NameOrder) THEN <<>>
    ELSE (IF NameOrder[k] \in names THEN <<NameOrder[k]>> ELSE <<>>) \o SortedFrom(names, k + 1)

\* lines 478-485
image_files == SortedFrom({f \in DOMAIN listing : SuffixLower(f) \in image_extensions}, 1)

\* what a file holds: whether is_composite_image accepts it for the min_size
\* of the call, and the pieces segment_composite_image writes for it
FileContents == [composite : BOOLEAN, pieces : 0 .. MaxPieces]

Listings == UNION {[names -> FileContents] : names \in SUBSET FileNames}

\* the arguments of a call; the defaults are those of lines 1003-1007
Calls ==
    [fn : {"segment_extracted_images", "segment_all_composites"},
     images_dir : {"cheatsheet_images"}, output_dir : {"segmented_pieces"},
     min_size : {1000}, method : {"auto", "grid"}, min_area : {500}]

SegmentInit ==
    /\ seg_pc = "start"
    /\ entry \in Calls
    /\ import_ok \in BOOLEAN
    /\ entry.fn = "segment_all_composites" => import_ok
    /\ listing \in Listings
    /\ si = 1
    /\ results = <<>>
    /\ inner_calls = <<>>
    /\ seg_returned = [kind |-> "none"]

\* lines 360-452, as far as segment_all_composites relies on it: the paths
\* of the pieces written for file f into output_dir/<stem of f>
segment_composite_image(f, output_dir) ==
    [i \in 1 .. listing[f].pieces |-> [dir |-> <<output_dir, f.stem>>, stem |-> f.stem, piece |-> i]]

\* os.path.join(input_dir, filename) of line 486
ImagePath(input_dir, f) == [dir |-> input_dir, name |-> f]

\* lines 1020-1021 and 1034-1036: the module cannot be imported
ImportErrorCaught ==
    /\ seg_pc = "start"
    /\ entry.fn = "segment_extracted_images"
    /\ ~import_ok
    /\ seg_pc' = "done"
    /\ seg_returned' = [kind |-> "dict", value |-> <<>>]
    /\ UNCHANGED <<entry, import_ok, listing, si, results, inner_calls>>
    /\ UNCHANGED <<objVars, catVars, imgVars, pieceVars, cropVars, mainVars>>

\* lines 1022-1031 and 1037-1039: the arguments of the call are evaluated and
\* bound; an exception of either step is caught and {} is returned
CallSegmentAllComposites ==
    /\ seg_pc = "start"
    /\ entry.fn = "segment_extracted_images"
    /\ import_ok
    /\ IF /\ AllNamesResolve(OuterCallNames, OuterLocals, RebuildGlobals)
          /\ OuterCallKeywords \subseteq InnerParams
       THEN /\ seg_pc' = "listed"
            /\ inner_calls' = Append(inner_calls,
                   [input_dir |-> entry.images_dir, output_dir |-> entry.output_dir,
                    min_size |-> entry.min_size, method |-> entry.method,
                    min_area |-> entry.min_area])
            /\ UNCHANGED seg_returned
       ELSE /\ seg_pc' = "done"
            /\ seg_returned' = [kind |-> "dict", value |-> <<>>]
            /\ UNCHANGED inner_calls
    /\ UNCHANGED <<entry, import_ok, listing, si, results>>
    /\ UNCHANGED <<objVars, catVars, imgVars, pieceVars, cropVars, mainVars>>

\* lines 474-483: segment_all_composites is entered
ListImages ==
    /\ seg_pc = "start"
    /\ entry.fn = "segment_all_composites"
    /\ seg_pc' = "listed"
    /\ si' = 1
    /\ results' = <<>>
    /\ inner_calls' = Append(inner_calls,
           [input_dir |-> entry.images_dir, output_dir |-> entry.output_dir,
            min_size |-> entry.min_size, method |-> entry.method,
            min_area |-> entry.min_area])
    /\ UNCHANGED <<entry, import_ok, listing, seg_returned>>
    /\ UNCHANGED <<objVars, catVars, imgVars, pieceVars, cropVars, mainVars>>

\* lines 485-491: a file is_composite_image does not accept
SkipNotComposite ==
    /\ seg_pc = "listed"
    /\ si <= Len(image_files)
    /\ ~listing[image_files[si]].composite
    /\ si' = si + 1
    /\ UNCHANGED <<seg_pc, entry, import_ok, listing, results, inner_calls, seg_returned>>
    /\ UNCHANGED <<objVars, catVars, imgVars, pieceVars, cropVars, mainVars>>

\* what leaves the function when an exception does: segment_all_composites
\* lets it through, the except of lines 1037-1039 turns it into {}
Raised(name) ==
    IF entry.fn = "segment_extracted_images"
    THEN [kind |-> "dict", value |-> <<>>]
    ELSE [kind |-> name]

\* lines 485-508: a composite; the arguments of the call of lines 498-505 are
\* evaluated, the image is segmented and its pieces are recorded
SegmentComposite ==
    /\ seg_pc = "listed"
    /\ si <= Len(image_files)
    /\ listing[image_files[si]].composite
    /\ IF AllNamesResolve(InnerCallNames, InnerLocals, SegmentGlobals)
       THEN LET f == image_files[si]
                extracted == segment_composite_image(f, inner_calls[1].output_dir)
            IN  /\ results' = IF Len(extracted) > 0
                              THEN DictSet(results, ImagePath(inner_calls[1].input_dir, f),
                                           extracted)
                              ELSE results
                /\ si' = si + 1
                /\ UNCHANGED <<seg_pc, seg_returned>>
       ELSE /\ seg_pc' = "done"
            /\ seg_returned' = Raised("NameError")
            /\ UNCHANGED <<si, results>>
    /\ UNCHANGED <<entry, import_ok, listing, inner_calls>>
    /\ UNCHANGED <<objVars, catVars, imgVars, pieceVars, cropVars, mainVars>>

\* lines 510-511 (and 1032-1033)
ReturnResults ==
    /\ seg_pc = "listed"
    /\ si > Len(image_files)
    /\ seg_pc' = "done"
    /\ seg_returned' = [kind |-> "dict", value |-> results]
    /\ UNCHANGED <<entry, import_ok, listing, si, results, inner_calls>>
    /\ UNCHANGED <<objVars, catVars, imgVars, pieceVars, cropVars, mainVars>>

InitSegment ==
    /\ IdleObjects /\ IdleCategorize /\ IdleImages /\ SegmentInit
    /\ IdlePieces /\ IdleCrop /\ IdleMain

NextSegment ==
    \/ ImportErrorCaught
    \/ CallSegmentAllComposites
    \/ ListImages
    \/ SkipNotComposite
    \/ SegmentComposite
    \/ ReturnResults

SpecSegment == InitSegment /\ [][NextSegment]_vars

\* the mapping the docstring of lines 471-472 promises for a directory: the
\* path of every composite image that yields pieces, to the paths of its pieces
ExpectedResults(input_dir, output_dir) ==
    LET yielding == {f \in DOMAIN listing :
                        /\ SuffixLower(f) \in image_extensions
                        /\ listing[f].composite
                        /\ listing[f].pieces > 0}
        byPath == {ImagePath(input_dir, f) : f \in yielding}
    IN  [path \in byPath |-> segment_composite_image(path.name, output_dir)]

\* C5 (as claimed): when the segmentation module can be imported and images_dir
\* holds a composite image with pieces, segment_extracted_images calls
\* segment_all_composites with the arguments it was given and returns its
\* non-empty mapping from composite paths to piece paths.
C5_ReturnsSegmentation ==
    (/\ entry.fn = "segment_extracted_images"
     /\ seg_pc = "done"
     /\ import_ok
     /\ DOMAIN ExpectedResults(entry.images_dir, entry.output_dir) # {}) =>
        /\ inner_calls = <<[input_dir |-> entry.images_dir, output_dir |-> entry.output_dir,
                            min_size |-> entry.min_size, method |-> entry.method,
                            min_area |-> entry.min_area]>>
        /\ seg_returned.kind = "dict"
        /\ DOMAIN seg_returned.value # {}
        /\ seg_returned.value = ExpectedResults(entry.images_dir, entry.output_dir)

\* C6 (as claimed): segment_all_composites visits the image files of input_dir
\* in sorted order, segments every composite among them and returns the
\* mapping from the path of each composite that yielded pieces to its pieces.
C6_MapsEveryComposite ==
    (entry.fn = "segment_all_composites" /\ seg_pc = "done") =>
        /\ seg_returned.kind = "dict"
        /\ si = Len(image_files) + 1
        /\ seg_returned.value = ExpectedResults(entry.images_dir, entry.output_dir)

-----------------------------------------------------------------------------
(* extract_piece (segment_images.py:309-331) *)

Max(a, b) == IF a >= b THEN a ELSE b
Min(a, b) == IF a <= b THEN a ELSE b

\* the indices a[start:stop] selects from an axis of length n: a negative
\* index counts from the end, and both ends are clipped to the axis
Slice(start, stop, n) ==
    LET lo == IF start < 0 THEN Max(start + n, 0) ELSE Min(start, n)
        hi == IF stop < 0 THEN Max(stop + n, 0) ELSE Min(stop, n)
    IN  {i \in 0 .. n - 1 : lo <= i /\ i < hi}

\* lines 322-331; shape is image.shape[:2], (height, width); the array
\* returned is given by the rows and columns of image it holds
extract_piece(shape, bbox, padding) ==
    LET x == bbox[1]
        y == bbox[2]
        w == bbox[3]
        h == bbox[4]
        height == shape[1]
        width == shape[2]
        x_start == Max(0, x - padding)
        y_start == Max(0, y - padding)
        x_end == Min(width, x + w + padding)
        y_end == Min(height, y + h + padding)
    IN  [rows |-> Slice(y_start, y_end, height), cols |-> Slice(x_start, x_end, width)]

\* the shapes, corners, sizes and paddings of the calls
CropShapes == {<<8, 10>>, <<8, 30>>, <<20, 10>>, <<20, 30>>}
CropCorners == {-12, -3, 0, 4, 9, 35}
CropSizes == {0, 1, 5, 40}
CropPaddings == {0, 2, 5}

CropInit ==
    /\ crop_in \in [shape : CropShapes,
                    bbox : CropCorners \X CropCorners \X CropSizes \X CropSizes,
                    padding : CropPaddings]
    /\ crop_out = [kind |-> "none"]

\* one call of extract_piece
ExtractPiece ==
    /\ crop_out.kind = "none"
    /\ crop_out' = [kind |-> "array",
                    value |-> extract_piece(crop_in.shape, crop_in.bbox, crop_in.padding)]
    /\ UNCHANGED <<crop_in, objVars, catVars, imgVars, segVars, pieceVars, mainVars>>

InitCrop ==
    /\ IdleObjects /\ IdleCategorize /\ IdleImages /\ IdleSegment
    /\ IdlePieces /\ CropInit /\ IdleMain

NextCrop == ExtractPiece

SpecCrop == InitCrop /\ [][NextCrop]_vars

\* C15 (as claimed): for every bbox (x, y, w, h) and padding >= 0 the crop is
\* the rectangle [max(0, x-padding), min(W, x+w+padding)) x
\* [max(0, y-padding), min(H, y+h+padding)); it lies inside the image, and it
\* holds the whole bbox when the bbox lies inside the image.
C15_CropIsClampedBox ==
    crop_out.kind = "array" =>
        LET H == crop_in.shape[1]
            W == crop_in.shape[2]
            x == crop_in.bbox[1]
            y == crop_in.bbox[2]
            w == crop_in.bbox[3]
            h == crop_in.bbox[4]
            p == crop_in.padding
            left == IF x - p > 0 THEN x - p ELSE 0
            top == IF y - p > 0 THEN y - p ELSE 0
            right == IF x + w + p < W THEN x + w + p ELSE W
            bottom == IF y + h + p < H THEN y + h + p ELSE H
        IN  /\ crop_out.value.cols = {i \in left .. right - 1 : TRUE}
            /\ crop_out.value.rows = {j \in top .. bottom - 1 : TRUE}
            /\ crop_out.value.cols \subseteq 0 .. W - 1
            /\ crop_out.value.rows \subseteq 0 .. H - 1
            /\ (x >= 0 /\ y >= 0 /\ x + w <= W /\ y + h <= H) =>
                  /\ x .. x + w - 1 \subseteq crop_out.value.cols
                  /\ y .. y + h - 1 \subseteq crop_out.value.rows

-----------------------------------------------------------------------------
(* segment_composite_image (segment_images.py:360-452) and its detectors *)

\* a contour as cv2.findContours gives it: cv2.boundingRect (x, y, w, h) and
\* cv2.contourArea
Contour(rect, area) == [rect |-> rect, area |-> area]

\* lines 218-219 and 266-267: w / h (0 when h is 0) lies in [lo/10, hi/10]
AspectKept(rect, lo, hi) ==
    /\ rect[4] > 0
    /\ 10 * rect[3] >= lo * rect[4]
    /\ 10 * rect[3] <= hi * rect[4]

RECURSIVE Rects(_)
Rects(cs) == IF cs = <<>> THEN <<>> ELSE <<Head(cs).rect>> \o Rects(Tail(cs))

\* lines 172-224, max_area being None
detect_pieces_contour(img, min_area) ==
    Rects(SelectSeq(img.contours,
                    LAMBDA c : c.area >= min_area /\ AspectKept(c.rect, 1, 100)))

\* lines 227-272
detect_pieces_color_based(img, min_area) ==
    Rects(SelectSeq(img.color_contours,
                    LAMBDA c : c.area >= min_area /\ AspectKept(c.rect, 2, 50)))

\* the key of line 298: (b[1], b[0])
KeyLess(a, b) == a[2] < b[2] \/ (a[2] = b[2] /\ a[1] < b[1])

\* sorted() of line 298, which keeps the order of boxes of equal key
RECURSIVE InsertSorted(_, _)
InsertSorted(sorted, b) ==
    IF sorted = <<>> THEN <<b>>
    ELSE IF KeyLess(b, Head(sorted)) THEN <<b>> \o sorted
    ELSE <<Head(sorted)>> \o InsertSorted(Tail(sorted), b)

RECURSIVE SortedByRow(_)
SortedByRow(bs) ==
    IF bs = <<>> THEN <<>>
    ELSE InsertSorted(SortedByRow(SubSeq(bs, 1, Len(bs) - 1)), bs[Len(bs)])

\* lines 275-306, expected_rows and expected_cols being None
detect_pieces_grid(img) ==
    LET found == detect_pieces_contour(img, 1000)
    IN  IF Len(found) < 2 THEN found ELSE SortedByRow(found)

\* mutant: auto falls back to colour only when contour detection found nothing
DetectionAutoWhenNone(method, img, min_area) ==
    LET contour == detect_pieces_contour(img, min_area)
        color == detect_pieces_color_based(img, min_area)
    IN  IF method = "auto"
        THEN IF Len(contour) < 1
             THEN [boxes |-> color, called |-> <<"contour", "color">>]
             ELSE [boxes |-> contour, called |-> <<"contour">>]
        ELSE IF method = "contour" THEN [boxes |-> contour, called |-> <<"contour">>]
        ELSE IF method = "color" THEN [boxes |-> color, called |-> <<"color">>]
        ELSE IF method = "grid"
             THEN [boxes |-> detect_pieces_grid(img), called |-> <<"grid">>]
        ELSE [boxes |-> contour, called |-> <<"contour">>]

\* lines 398-414: the boxes, and the detectors called to get them
Detection(method, img, min_area) ==
    LET contour == detect_pieces_contour(img, min_area)
        color == detect_pieces_color_based(img, min_area)
    IN  IF method = "auto"
        THEN IF Len(contour) < 2
             THEN [boxes |-> color, called |-> <<"contour", "color">>]
             ELSE [boxes |-> contour, called |-> <<"contour">>]
        ELSE IF method = "contour" THEN [boxes |-> contour, called |-> <<"contour">>]
        ELSE IF method = "color" THEN [boxes |-> color, called |-> <<"color">>]
        ELSE IF method = "grid"
             THEN [boxes |-> detect_pieces_grid(img), called |-> <<"grid">>]
        ELSE [boxes |-> contour, called |-> <<"contour">>]

\* lines 334-357: the piece cropped for bbox has at least 10 rows and 10
\* columns, and is_empty_image and has_meaningful_content find content in it
is_valid_piece(piece, bbox, img) ==
    IF piece.rows = {} \/ piece.cols = {} THEN FALSE
    ELSE IF Cardinality(piece.rows) < 10 \/ Cardinality(piece.cols) < 10 THEN FALSE
    ELSE bbox \notin img.background

\* f"{n:03d}": the decimal digits of n, with zeros in front up to three digits
RECURSIVE Decimal(_)
Decimal(n) == IF n < 10 THEN <<n>> ELSE Decimal(n \div 10) \o <<n % 10>>

Format03d(n) ==
    LET d == Decimal(n)
    IN  IF Len(d) >= 3 THEN d ELSE [i \in 1 .. 3 - Len(d) |-> 0] \o d

\* lines 439-440: output_dir/{base_name}_piece_{idx + 1:03d}.png
PiecePath(idx) == [stem |-> "composite", piece |-> Format03d(idx + 1), ext |-> "png"]

\* the contours OpenCV may find in an image of 60 rows and 100 columns
LargeLeft == Contour(<<5, 5, 30, 40>>, 1100)
SmallRight == Contour(<<40, 10, 30, 20>>, 550)
LargeTop == Contour(<<50, 0, 40, 30>>, 1150)
WideStrip == Contour(<<0, 50, 100, 8>>, 700)
ThinEdge == Contour(<<90, 0, 9, 58>>, 510)
Speck == Contour(<<70, 40, 12, 12>>, 120)

PieceImages ==
    [readable : BOOLEAN,
     shape : {<<60, 100>>},
     contours : {<<>>, <<LargeLeft>>, <<SmallRight, LargeLeft, Speck>>,
                 <<LargeLeft, ThinEdge>>, <<WideStrip>>, <<LargeLeft, LargeTop>>},
     color_contours : {<<>>, <<SmallRight>>, <<LargeLeft, SmallRight>>,
                       <<ThinEdge, WideStrip, LargeLeft>>},
     background : {{}, {LargeLeft.rect}, {SmallRight.rect, LargeTop.rect}}]

\* the arguments of a call; method, min_area and padding have the defaults of
\* lines 361-363 among their values
PieceCalls ==
    [method : {"auto", "contour", "color", "grid", "watershed"},
     min_area : {500}, padding : {0, 5},
     filter_empty : BOOLEAN, clear_output : BOOLEAN]

\* a piece an earlier run left in output_dir
StalePiece == [stem |-> "composite", piece |-> Format03d(7), ext |-> "png"]

PiecesInit ==
    /\ ppc = "start"
    /\ pcall \in PieceCalls
    /\ image \in PieceImages
    /\ detectors = <<>>
    /\ boxes = <<>>
    /\ pidx = 0
    /\ extracted_paths = <<>>
    /\ skipped_count = 0
    /\ piece_files \in {{}, {StalePiece}}
    /\ fate = <<>>
    /\ piece_returned = [kind |-> "none"]

\* lines 382-385: cv2.imread gives None
LoadFails ==
    /\ ppc = "start"
    /\ ~image.readable
    /\ ppc' = "done"
    /\ piece_returned' = [kind |-> "list", value |-> <<>>]
    /\ UNCHANGED <<pcall, image, detectors, boxes, pidx, extracted_paths,
                   skipped_count, piece_files, fate>>
    /\ UNCHANGED <<objVars, catVars, imgVars, segVars, cropVars, mainVars>>

\* lines 387-426: the output directory is cleared and made, the pieces are
\* detected; without any box the function returns
DetectPieces ==
    /\ ppc = "start"
    /\ image.readable
    /\ piece_files' = IF pcall.clear_output THEN {} ELSE piece_files
    /\ LET found == Detection(pcall.method, image, pcall.min_area)
       IN  /\ boxes' = found.boxes
           /\ detectors' = found.called
           /\ IF Len(found.boxes) = 0
              THEN /\ ppc' = "done"
                   /\ piece_returned' = [kind |-> "list", value |-> <<>>]
              ELSE /\ ppc' = "loop"
                   /\ UNCHANGED piece_returned
    /\ UNCHANGED <<pcall, image, pidx, extracted_paths, skipped_count, fate>>
    /\ UNCHANGED <<objVars, catVars, imgVars, segVars, cropVars, mainVars>>

\* the piece of line 429
CurrentPiece == extract_piece(image.shape, boxes[pidx + 1], pcall.padding)

\* mutant: a skipped piece is not counted
SkipPieceUncounted ==
    /\ ppc = "loop" /\ pidx < Len(boxes)
    /\ pcall.filter_empty
    /\ ~is_valid_piece(CurrentPiece, boxes[pidx + 1], image)
    /\ fate' = Append(fate, "skipped")
    /\ pidx' = pidx + 1
    /\ UNCHANGED <<ppc, pcall, image, detectors, boxes, extracted_paths,
                   skipped_count, piece_files, piece_returned>>
    /\ UNCHANGED <<objVars, catVars, imgVars, segVars, cropVars, mainVars>>

\* lines 428-436
SkipPiece ==
    /\ ppc = "loop" /\ pidx < Len(boxes)
    /\ pcall.filter_empty
    /\ ~is_valid_piece(CurrentPiece, boxes[pidx + 1], image)
    /\ skipped_count' = skipped_count + 1
    /\ fate' = Append(fate, "skipped")
    /\ pidx' = pidx + 1
    /\ UNCHANGED <<ppc, pcall, image, detectors, boxes, extracted_paths,
                   piece_files, piece_returned>>
    /\ UNCHANGED <<objVars, catVars, imgVars, segVars, cropVars, mainVars>>

\* lines 428-432 and 438-447
WritePiece ==
    /\ ppc = "loop" /\ pidx < Len(boxes)
    /\ ~(pcall.filter_empty /\ ~is_valid_piece(CurrentPiece, boxes[pidx + 1], image))
    /\ piece_files' = piece_files \cup {PiecePath(pidx)}
    /\ extracted_paths' = Append(extracted_paths, PiecePath(pidx))
    /\ fate' = Append(fate, "written")
    /\ pidx' = pidx + 1
    /\ UNCHANGED <<ppc, pcall, image, detectors, boxes, skipped_count, piece_returned>>
    /\ UNCHANGED <<objVars, catVars, imgVars, segVars, cropVars, mainVars>>

\* lines 449-452
ReturnExtracted ==
    /\ ppc = "loop" /\ pidx = Len(boxes)
    /\ ppc' = "done"
    /\ piece_returned' = [kind |-> "list", value |-> extracted_paths]
    /\ UNCHANGED <<pcall, image, detectors, boxes, pidx, extracted_paths,
                   skipped_count, piece_files, fate>>
    /\ UNCHANGED <<objVars, catVars, imgVars, segVars, cropVars, mainVars>>

InitPieces ==
    /\ IdleObjects /\ IdleCategorize /\ IdleImages /\ IdleSegment
    /\ PiecesInit /\ IdleCrop /\ IdleMain

NextPieces ==
    \/ LoadFails
    \/ DetectPieces
    \/ SkipPiece
    \/ WritePiece
    \/ ReturnExtracted

SpecPieces == InitPieces /\ [][NextPieces]_vars

\* C13: once the detection is done, a call with method contour, color or grid
\* has called that detector alone and holds its boxes; a call with method auto
\* has called contour detection, has called color-based detection after it if
\* and only if contour detection found fewer than 2 boxes, and then holds the
\* boxes of color-based detection; a call with any other method has called
\* contour detection alone and holds its boxes.
C13_MethodChoosesDetector ==
    (ppc \in {"loop", "done"} /\ image.readable) =>
        LET contour == detect_pieces_contour(image, pcall.min_area)
            color == detect_pieces_color_based(image, pcall.min_area)
        IN  /\ pcall.method = "contour" => detectors = <<"contour">> /\ boxes = contour
            /\ pcall.method = "color" => detectors = <<"color">> /\ boxes = color
            /\ pcall.method = "grid" =>
                  detectors = <<"grid">> /\ boxes = detect_pieces_grid(image)
            /\ pcall.method = "auto" =>
                  /\ detectors[1] = "contour"
                  /\ detectors = <<"contour", "color">> <=> Len(contour) < 2
                  /\ boxes = IF Len(contour) < 2 THEN color ELSE contour
            /\ pcall.method \notin {"contour", "color", "grid", "auto"} =>
                  detectors = <<"contour">> /\ boxes = contour

\* C13 witness: with method auto, contour detection found one box, and the
\* two boxes of color-based detection were taken instead.
C13_Witness ==
    /\ ppc = "loop"
    /\ pcall.method = "auto"
    /\ Len(detect_pieces_contour(image, pcall.min_area)) = 1
    /\ detectors = <<"contour", "color">>
    /\ Len(boxes) = 2

-----------------------------------------------------------------------------
(* The script of rebuild_lotr.py:1042-1052, with create_cheat_sheet        *)
(* (407-503) and create_html_cheatsheet (506-1000).  The functions the     *)
(* script calls run as modelled above, step by step.                       *)

\* str.strip() of line 420 on the text of a TextObject, which
\* extract_text_from_block has stripped already (line 47)
Strip(text) == IF text \in {" T", "T ", " T "} THEN "T" ELSE text

RECURSIVE PageText(_)
PageText(objs) ==
    IF objs = <<>> THEN <<>>
    ELSE (IF IsText(Head(objs)) THEN <<Strip(Head(objs).text)>> ELSE <<>>)
             \o PageText(Tail(objs))

\* lines 414-422: all_text, the texts of every page that has text
all_text(objs) ==
    [p \in {q \in DOMAIN objs : PageText(objs[q]) # <<>>} |-> PageText(objs[p])]

\* the arguments create_html_cheatsheet passes to extract_images (line 509),
\* the others being the defaults of lines 314-316
HtmlImageParams ==
    {p \in Params : ~p.categorize /\ p.min_size = 50 /\ p.filter_empty /\ p.clear_output}

\* what the directory cheatsheet_images holds when line 1052 is reached
MainListings ==
    {l \in Listings : DOMAIN l \subseteq {NameOrder[3]} /\
                      \A f \in DOMAIN l : l[f].composite /\ l[f].pieces = 1}

\* lines 1043-1047: the flags are read and extract_objects is called
MainInit ==
    /\ main_pc = "extract_objects"
    /\ argv \in [page_images : BOOLEAN, segment : BOOLEAN]
    /\ extract_page_images = argv.page_images
    /\ main_objects = Idle
    /\ main_trace = <<"extract_objects">>
    /\ sheet = [kind |-> "none"]
    /\ html = FALSE

\* line 1047: extract_objects raised, the script ends with the traceback
MainUncaught ==
    /\ main_pc = "extract_objects"
    /\ pc = "raised"
    /\ main_pc' = "exit"
    /\ UNCHANGED <<argv, main_objects, main_trace, sheet, html>>
    /\ UNCHANGED <<objVars, catVars, imgVars, segVars, pieceVars, cropVars>>

\* line 1047: extract_objects returned, objects is bound
MainBindObjects ==
    /\ main_pc = "extract_objects"
    /\ pc = "done"
    /\ main_objects' = returned.value
    /\ main_pc' = "objects"
    /\ UNCHANGED <<argv, main_trace, sheet, html>>
    /\ UNCHANGED <<objVars, catVars, imgVars, segVars, pieceVars, cropVars>>

\* mutant: the texts are stripped in place
MainCreateCheatSheetInPlace ==
    /\ main_pc = "objects"
    /\ sheet' = [kind |-> "file", value |-> all_text(main_objects)]
    /\ main_objects' =
          [p \in DOMAIN main_objects |->
              [i \in 1 .. Len(main_objects[p]) |->
                  IF IsText(main_objects[p][i])
                  THEN [main_objects[p][i] EXCEPT !.text = "stripped"]
                  ELSE main_objects[p][i]]]
    /\ main_pc' = "sheet"
    /\ main_trace' = Append(main_trace, "create_cheat_sheet")
    /\ UNCHANGED <<argv, html>>
    /\ UNCHANGED <<objVars, catVars, imgVars, segVars, pieceVars, cropVars>>

\* line 1048 and lines 407-503: the text cheat sheet is written
MainCreateCheatSheet ==
    /\ main_pc = "objects"
    /\ sheet' = [kind |-> "file", value |-> all_text(main_objects)]
    /\ main_pc' = "sheet"
    /\ main_trace' = Append(main_trace, "create_cheat_sheet")
    /\ UNCHANGED <<argv, main_objects, html>>
    /\ UNCHANGED <<objVars, catVars, imgVars, segVars, pieceVars, cropVars>>

\* lines 1049 and 506-509: create_html_cheatsheet is called and calls
\* extract_images
MainCallCreateHtml ==
    /\ main_pc = "sheet"
    /\ ipc' = "start"
    /\ objects' = main_objects
    /\ params' \in HtmlImageParams
    /\ \E out \in Outputs :
          /\ dirs' = out.dirs
          /\ files' = [f \in out.files |-> "OLD"]
    /\ files_before' = files'
    /\ cursor' = <<1, 0>>
    /\ image_paths' = <<>>
    /\ outcome' = <<>>
    /\ img_returned' = [kind |-> "none"]
    /\ main_pc' = "extract_images"
    /\ main_trace' = Append(main_trace, "create_html_cheatsheet")
    /\ UNCHANGED <<argv, main_objects, sheet, html>>
    /\ UNCHANGED <<objVars, catVars, segVars, pieceVars, cropVars>>

\* lines 511-1000: extract_images has returned, the page is put together
\* and written
MainWriteHtml ==
    /\ main_pc = "extract_images"
    /\ ipc = "done"
    /\ html' = TRUE
    /\ main_pc' = "html"
    /\ UNCHANGED <<argv, main_objects, main_trace, sheet>>
    /\ UNCHANGED <<objVars, catVars, imgVars, segVars, pieceVars, cropVars>>

\* mutant: segmentation without looking at --segment
MainCallSegmentAlways ==
    /\ main_pc = "html"
    /\ seg_pc' = "start"
    /\ entry' = [fn |-> "segment_extracted_images", images_dir |-> "cheatsheet_images",
                 output_dir |-> "segmented_pieces", min_size |-> 1000,
                 method |-> "auto", min_area |-> 500]
    /\ import_ok' \in BOOLEAN
    /\ listing' \in MainListings
    /\ si' = 1
    /\ results' = <<>>
    /\ inner_calls' = <<>>
    /\ seg_returned' = [kind |-> "none"]
    /\ main_pc' = "segment"
    /\ main_trace' = Append(main_trace, "segment_extracted_images")
    /\ UNCHANGED <<argv, main_objects, sheet, html>>
    /\ UNCHANGED <<objVars, catVars, imgVars, pieceVars, cropVars>>

\* lines 1051-1052: with --segment, segment_extracted_images() is called
MainCallSegment ==
    /\ main_pc = "html"
    /\ argv.segment
    /\ seg_pc' = "start"
    /\ entry' = [fn |-> "segment_extracted_images", images_dir |-> "cheatsheet_images",
                 output_dir |-> "segmented_pieces", min_size |-> 1000,
                 method |-> "auto", min_area |-> 500]
    /\ import_ok' \in BOOLEAN
    /\ listing' \in MainListings
    /\ si' = 1
    /\ results' = <<>>
    /\ inner_calls' = <<>>
    /\ seg_returned' = [kind |-> "none"]
    /\ main_pc' = "segment"
    /\ main_trace' = Append(main_trace, "segment_extracted_images")
    /\ UNCHANGED <<argv, main_objects, sheet, html>>
    /\ UNCHANGED <<objVars, catVars, imgVars, pieceVars, cropVars>>

\* the end of the script: after line 1049 without --segment, after the call
\* of line 1052 with it
MainExit ==
    /\ \/ main_pc = "html" /\ ~argv.segment
       \/ main_pc = "segment" /\ seg_pc = "done"
    /\ main_pc' = "exit"
    /\ UNCHANGED <<argv, main_objects, main_trace, sheet, html>>
    /\ UNCHANGED <<objVars, catVars, imgVars, segVars, pieceVars, cropVars>>

InitMain ==
    /\ ObjectsInit /\ IdleCategorize /\ IdleImages /\ IdleSegment
    /\ IdlePieces /\ IdleCrop /\ MainInit

\* the steps of the script and of the functions it calls; of extract_images
\* and segment_extracted_images, the steps that the documents of
\* extract_objects above and the arguments of lines 509 and 1052 can reach
NextMain ==
    \/ RaiseFileNotFound
    \/ OpenDocument
    \/ LoadPage
    \/ ProcessBlock
    \/ GetImages
    \/ ProcessPageImage
    \/ EndPageImages
    \/ StorePage
    \/ ReturnPagesData
    \/ MainUncaught
    \/ MainBindObjects
    \/ MainCreateCheatSheet
    \/ MainCallCreateHtml
    \/ PrepareOutput
    \/ SkipText
    \/ SaveImage
    \/ FailWrite
    \/ NextPage
    \/ ReturnImagePaths
    \/ MainWriteHtml
    \/ MainCallSegment
    \/ ImportErrorCaught
    \/ CallSegmentAllComposites
    \/ MainExit

SpecMain == InitMain /\ [][NextMain]_vars

\* the calls of the script, in the order of lines 1047-1052
MainOrder ==
    <<"extract_objects", "create_cheat_sheet", "create_html_cheatsheet",
      "segment_extracted_images">>

IsPrefix(s, t) == Len(s) <= Len(t) /\ \A i \in 1 .. Len(s) : s[i] = t[i]

\* C16: the calls made so far are a prefix of extract_objects,
\* create_cheat_sheet, create_html_cheatsheet, segment_extracted_images, each
\* entered at most once; create_cheat_sheet is entered only when
\* extract_objects has returned, create_html_cheatsheet only when the text
\* cheat sheet is written; image files are written only inside
\* create_html_cheatsheet, which writes the page when extract_images has
\* returned; segment_extracted_images is entered only with --segment and
\* only when the images and the page are written; and what a step has
\* produced is not changed by a later step.
C16_LinearPass ==
    /\ [](/\ IsPrefix(main_trace, MainOrder)
          /\ Len(main_trace) >= 2 => pc = "done" /\ returned.kind = "dict"
          /\ Len(main_trace) >= 3 => sheet.kind = "file"
          /\ ipc # Idle => Len(main_trace) >= 3
          /\ html => ipc = "done"
          /\ Len(main_trace) = 4 => argv.segment /\ html /\ ipc = "done"
          /\ seg_pc # Idle => Len(main_trace) = 4)
    /\ [][/\ Len(main_trace) >= 2 => UNCHANGED <<pc, pages_data, returned>>
          /\ Len(main_trace) >= 3 => UNCHANGED sheet
          /\ html => UNCHANGED <<ipc, files, image_paths, img_returned, html>>
          /\ seg_pc = "done" => UNCHANGED <<seg_pc, seg_returned>>]_vars

\* C16 witness: a run with --segment came to its end after all four calls,
\* with image files and the page written.
C16_Witness ==
    /\ main_pc = "exit"
    /\ main_trace = MainOrder
    /\ html
    /\ DOMAIN files # {}
    /\ seg_pc = "done"

\* C17: from the return of extract_objects on, through create_cheat_sheet,
\* create_html_cheatsheet and the extract_images it calls, the dictionary is
\* the one extract_objects returned: same pages, same lists in the same
\* order, same fields of every object.
C17_ObjectsUnchanged ==
    /\ main_pc \in {"objects", "sheet", "extract_images", "html", "segment"} =>
          main_objects = returned.value
    /\ (main_pc = "exit" /\ returned.kind = "dict") => main_objects = returned.value
    /\ ipc # Idle => objects = returned.value

\* C17 witness: the script came to its end for a document with text and an
\* image; the text is in the cheat sheet, the image is saved.
C17_Witness ==
    /\ main_pc = "exit"
    /\ html
    /\ DOMAIN sheet.value # {}
    /\ DOMAIN img_returned.value # {}
    /\ \E p \in DOMAIN main_objects :
          \E i, j \in 1 .. Len(main_objects[p]) :
              IsText(main_objects[p][i]) /\ IsImage(main_objects[p][j])

====
